---------------------------- MODULE Spec2Model ----------------------------
(***************************************************************************)
(* AsistoVoice: the instruction pipeline of src/procesamiento (normalizer, *)
(* action detector, entity resolver, parameter extractor, validator) and   *)
(* the executor over the categorias store of src/services.                 *)
(*                                                                         *)
(* A Python str is a sequence of characters; a character is a one-element  *)
(* TLA+ string.  Precomposed accented letters are written base letter plus *)
(* mark ("a'" is a-acute, "n~" is n-tilde), the bare combining marks are   *)
(* "'" and "~", and "^2" is SUPERSCRIPT TWO (U+00B2).                      *)
(***************************************************************************)
EXTENDS Integers, Sequences, FiniteSets, TLC

VARIABLES
    pc,        \* position of the harness: which calls have been made
    partes,    \* the tokens texto was typed from, in order
    texto,     \* the text handed to the parser
    texto2,    \* a second text, related to texto (same text plus punctuation, ...)
    norm,      \* _normalizar(texto)
    norm2,     \* _normalizar(norm)
    det,       \* _primera_palabra_accion / _buscar_entidad on the tokens of texto
    res,       \* ParserInstrucciones.parsear(texto)
    res2,      \* ParserInstrucciones.parsear(texto2)
    tabla,     \* the rows of table categorias: id -> descripcion
    tabla_antes, \* the rows when the last ejecutar began
    inst,      \* the Instruccion last handed to EjecutorInstrucciones.ejecutar
    salida,    \* how that call ended: message returned, exception of the store, ...
    confirmadas, \* the rows the confirmations returned by ejecutar account for
    recorrido, \* the update scan of _extraer_params: rest, idx, params so far
    grabadora, \* Grabadora: _stream, the length of _chunks, whether the audio
               \* stream it opened is delivering blocks
    mic_btn,   \* ChatView.mic_btn: icon, disabled
    text_input, \* ChatView.text_input.value
    snack_bar, \* ChatView.page.snack_bar: the notice last shown
    hilo,      \* the thread running _guardar_y_transcribir and its locals
    parseos    \* how many times _send_message has called the parser

parserVars == <<partes, texto, texto2, norm, norm2, det, res, res2>>
ejecutorVars == <<tabla, tabla_antes, inst, salida>>
capturaVars == <<grabadora, mic_btn, text_input, snack_bar, hilo, parseos>>
otrosVars == <<confirmadas, recorrido, grabadora, mic_btn, text_input, snack_bar, hilo,
               parseos>>
vars == <<pc, partes, texto, texto2, norm, norm2, det, res, res2,
          tabla, tabla_antes, inst, salida,
          confirmadas, recorrido, grabadora, mic_btn, text_input, snack_bar, hilo,
          parseos>>

(***************************************************************************)
(* Characters                                                              *)
(***************************************************************************)

\* str.isspace(): what str.split() and str.strip() treat as whitespace
Espacios == {" ", "\t"}

\* parser.py: _FIN_FRASE = ".!?"
_FIN_FRASE == {".", "!", "?"}

\* unicodedata.category(c) == "Mn": combining acute accent, combining tilde
Mn == {"'", "~"}

\* unicodedata.normalize("NFD", c) of the precomposed letters
Descomposicion ==
    ("a'" :> <<"a", "'">>) @@ ("e'" :> <<"e", "'">>) @@ ("i'" :> <<"i", "'">>) @@
    ("o'" :> <<"o", "'">>) @@ ("u'" :> <<"u", "'">>) @@ ("n~" :> <<"n", "~">>) @@
    ("A'" :> <<"A", "'">>) @@ ("E'" :> <<"E", "'">>) @@ ("I'" :> <<"I", "'">>) @@
    ("O'" :> <<"O", "'">>) @@ ("U'" :> <<"U", "'">>) @@ ("N~" :> <<"N", "~">>)

\* str.lower() on the letters that have an upper case
Minusculas ==
    ("A" :> "a") @@ ("B" :> "b") @@ ("C" :> "c") @@ ("D" :> "d") @@ ("E" :> "e") @@
    ("F" :> "f") @@ ("G" :> "g") @@ ("H" :> "h") @@ ("I" :> "i") @@ ("J" :> "j") @@
    ("K" :> "k") @@ ("L" :> "l") @@ ("M" :> "m") @@ ("N" :> "n") @@ ("O" :> "o") @@
    ("P" :> "p") @@ ("Q" :> "q") @@ ("R" :> "r") @@ ("S" :> "s") @@ ("T" :> "t") @@
    ("U" :> "u") @@ ("V" :> "v") @@ ("W" :> "w") @@ ("X" :> "x") @@ ("Y" :> "y") @@
    ("Z" :> "z") @@
    ("A'" :> "a'") @@ ("E'" :> "e'") @@ ("I'" :> "i'") @@ ("O'" :> "o'") @@
    ("U'" :> "u'") @@ ("N~" :> "n~")

\* the characters int() reads as decimal digits, with their values
Decimales ==
    ("0" :> 0) @@ ("1" :> 1) @@ ("2" :> 2) @@ ("3" :> 3) @@ ("4" :> 4) @@
    ("5" :> 5) @@ ("6" :> 6) @@ ("7" :> 7) @@ ("8" :> 8) @@ ("9" :> 9)

\* characters for which str.isdigit() is True although int() rejects them
\* (Unicode category No with a digit value: SUPERSCRIPT TWO)
Superindices == {"^2"}

(***************************************************************************)
(* str methods                                                             *)
(***************************************************************************)

MinDe(S) == CHOOSE x \in S : \A y \in S : x <= y
MaxDe(S) == CHOOSE x \in S : \A y \in S : x >= y

\* s.strip(): leading and trailing whitespace removed
Strip(s) ==
    LET I == {i \in 1..Len(s) : s[i] \notin Espacios}
    IN  IF I = {} THEN <<>> ELSE SubSeq(s, MinDe(I), MaxDe(I))

\* s.rstrip(chars): the trailing run of characters of chars removed
RStrip(s, chars) ==
    LET I == {i \in 1..Len(s) : s[i] \notin chars}
    IN  IF I = {} THEN <<>> ELSE SubSeq(s, 1, MaxDe(I))

\* s.split(): the maximal whitespace-free runs of s, in order
RECURSIVE SplitDesde(_, _, _, _)
SplitDesde(s, i, actual, acc) ==
    IF i > Len(s)
    THEN IF actual = <<>> THEN acc ELSE Append(acc, actual)
    ELSE IF s[i] \in Espacios
         THEN SplitDesde(s, i + 1, <<>>,
                         IF actual = <<>> THEN acc ELSE Append(acc, actual))
         ELSE SplitDesde(s, i + 1, Append(actual, s[i]), acc)

Split(s) == SplitDesde(s, 1, <<>>, <<>>)

\* " ".join(palabras)
RECURSIVE Join(_)
Join(palabras) ==
    IF palabras = <<>> THEN <<>>
    ELSE IF Len(palabras) = 1 THEN palabras[1]
    ELSE palabras[1] \o <<" ">> \o Join(Tail(palabras))

\* s.lower()
Lower(s) ==
    [i \in 1..Len(s) |-> IF s[i] \in DOMAIN Minusculas THEN Minusculas[s[i]] ELSE s[i]]

\* s.isdigit(): non-empty and every character a digit
IsDigit(s) ==
    /\ s # <<>>
    /\ \A i \in 1..Len(s) : s[i] \in (DOMAIN Decimales) \cup Superindices

\* whether int(s) returns (True) or raises ValueError (False), for s.isdigit()
IntAcepta(s) == \A i \in 1..Len(s) : s[i] \in DOMAIN Decimales

\* int(s) for a string of decimal digits
RECURSIVE IntDe(_)
IntDe(s) ==
    IF s = <<>> THEN 0
    ELSE 10 * IntDe(SubSeq(s, 1, Len(s) - 1)) + Decimales[s[Len(s)]]

\* unicodedata.normalize("NFD", s)
RECURSIVE NFD(_)
NFD(s) ==
    IF s = <<>> THEN <<>>
    ELSE (IF Head(s) \in DOMAIN Descomposicion
          THEN Descomposicion[Head(s)] ELSE <<Head(s)>>) \o NFD(Tail(s))

(***************************************************************************)
(* parser.py                                                               *)
(***************************************************************************)

\* _quitar_tildes without the decomposition: only loose marks are dropped
_quitar_tildes_SinNFD(s) ==
    IF s = <<>> THEN <<>>
    ELSE SelectSeq(s, LAMBDA c : c \notin Mn)

\* _quitar_tildes: NFD, then drop the combining marks
_quitar_tildes(s) ==
    IF s = <<>> THEN <<>>
    ELSE SelectSeq(NFD(s), LAMBDA c : c \notin Mn)

\* _normalizar: strip; "" if empty; join of split, strip; rstrip(_FIN_FRASE), strip
_normalizar(s) ==
    LET s1 == Strip(s)
    IN  IF s1 = <<>> THEN <<>>
        ELSE LET t == Strip(Join(Split(s1)))
             IN  Strip(RStrip(t, _FIN_FRASE))

\* Palabras que indican cada accion (minusculas, sin tildes)
_ACCIONES_CREAR ==
    { <<"n","u","e","v","a">>,
      <<"n","u","e","v","o">>,
      <<"c","r","e","a","r">>,
      <<"i","n","s","e","r","t","a","r">>,
      <<"a","g","r","e","g","a","r">>,
      <<"a","n","a","d","i","r">>,
      <<"a","l","t","a">>,
      <<"r","e","g","i","s","t","r","a","r">> }

_ACCIONES_LISTAR ==
    { <<"l","i","s","t","a","d","o">>,
      <<"l","i","s","t","a","r">>,
      <<"m","o","s","t","r","a","r">>,
      <<"v","e","r">>,
      <<"t","o","d","a","s">>,
      <<"t","o","d","o","s">> }

_ACCIONES_ACTUALIZAR ==
    { <<"e","d","i","t","a","r">>,
      <<"a","c","t","u","a","l","i","z","a","r">>,
      <<"m","o","d","i","f","i","c","a","r">>,
      <<"c","a","m","b","i","a","r">>,
      <<"a","c","t","u","a","l","i","z","a">>,
      <<"m","o","d","i","f","i","c","a">> }

_ACCIONES_ELIMINAR ==
    { <<"e","l","i","m","i","n","a","r">>,
      <<"b","o","r","r","a","r">>,
      <<"q","u","i","t","a","r">>,
      <<"e","l","i","m","i","n","a">>,
      <<"b","o","r","r","a">> }

\* Entidades: both word forms map to Entidad.CATEGORIAS
_ENTIDADES ==
    { <<"c","a","t","e","g","o","r","i","a">>,
      <<"c","a","t","e","g","o","r","i","a","s">> }

\* Nombres de campo reconocidos al actualizar
_CAMPOS_ACTUALIZABLES ==
    { <<"d","e","s","c","r","i","p","c","i","o","n">> }

\* the key every update value is stored under
_CAMPO_DESCRIPCION == "descripcion"

\* Palabras a ignorar entre accion/entidad y datos
_STOPWORDS ==
    { <<"l","a">>,
      <<"l","a","s">>,
      <<"l","o","s">>,
      <<"e","l">>,
      <<"d","e">>,
      <<"a">>,
      <<"e","n">>,
      <<"c","o","n">>,
      <<"t","o","d","a","s">>,
      <<"t","o","d","o","s">> }

\* the values read as True when updating
VALORES_VERDADERO ==
    { <<"v","e","r","d","a","d","e","r","o">>,
      <<"t","r","u","e">>,
      <<"1">>,
      <<"s","i">>,
      <<"s","i'">>,
      <<"y","e","s">> }

\* the values read as False when updating
VALORES_FALSO ==
    { <<"f","a","l","s","o">>,
      <<"f","a","l","s","e">>,
      <<"0">>,
      <<"n","o">> }

\* the words of the two-token rule
VER == <<"v","e","r">>
TODAS_TODOS == { <<"t","o","d","a","s">>, <<"t","o","d","o","s">> }

\* Python's None
None == "None"

\* values of params: str, bool and int, told apart by t
VStr(s) == [t |-> "str", s |-> s, n |-> 0]
VBool(b) == [t |-> "bool", s |-> <<>>, n |-> IF b THEN 1 ELSE 0]
VInt(n) == [t |-> "int", s |-> <<>>, n |-> n]

\* an empty dict
DictVacio == [k \in {} |-> VInt(0)]

\* d[k] = v
Poner(d, k, v) == (k :> v) @@ d

\* low = [p.lower() for p in palabras]
LowerTodas(palabras) == [i \in 1..Len(palabras) |-> Lower(palabras[i])]

\* _primera_palabra_accion: (Accion, tokens consumed) or (None, 0); the tests are
\* made in the order of the code
_primera_palabra_accion(palabras, low) ==
    IF palabras = <<>> THEN <<None, 0>>
    ELSE LET w == Lower(low[1])
         IN  IF w \in _ACCIONES_CREAR THEN <<"crear", 1>>
             ELSE IF w \in _ACCIONES_LISTAR THEN <<"listar", 1>>
             ELSE IF w \in _ACCIONES_ACTUALIZAR THEN <<"actualizar", 1>>
             ELSE IF w \in _ACCIONES_ELIMINAR THEN <<"eliminar", 1>>
             ELSE IF Len(low) >= 2 /\ w = VER /\ Lower(low[2]) \in TODAS_TODOS
                  THEN <<"listar", 2>>
             ELSE <<None, 0>>

\* BuscarDesde looking only at the word at i, stopword or not
BuscarDesde_SinSaltar(low, desde, i) ==
    IF i < Len(low) /\ Lower(low[i + 1]) \in _ENTIDADES
    THEN <<"categorias", i + 1>>
    ELSE <<None, desde>>

\* the loop of _buscar_entidad from index i (0-based, as in the code)
RECURSIVE BuscarDesde(_, _, _)
BuscarDesde(low, desde, i) ==
    IF i < Len(low)
    THEN LET w == Lower(low[i + 1])
         IN  IF w \in _STOPWORDS THEN BuscarDesde(low, desde, i + 1)
             ELSE IF w \in _ENTIDADES THEN <<"categorias", i + 1>>
             ELSE <<None, desde>>
    ELSE <<None, desde>>

\* _buscar_entidad: (Entidad, index after it) or (None, desde)
_buscar_entidad(palabras, low, desde) == BuscarDesde(low, desde, desde)

\* while idx < len(rest_low) and rest_low[idx].lower() in _STOPWORDS: idx += 1
RECURSIVE SaltarStopwords(_, _)
SaltarStopwords(rest_low, idx) ==
    IF idx < Len(rest_low) /\ Lower(rest_low[idx + 1]) \in _STOPWORDS
    THEN SaltarStopwords(rest_low, idx + 1)
    ELSE idx

\* the inner loop of the update scan: collects the value tokens up to the next
\* field name or the end, leaving the stopwords out
RECURSIVE RecogerValor(_, _, _, _)
RecogerValor(rest, rest_low, idx, valor_tokens) ==
    IF idx < Len(rest_low)
    THEN IF Lower(rest_low[idx + 1]) \in _CAMPOS_ACTUALIZABLES
         THEN [idx |-> idx, valor_tokens |-> valor_tokens]
         ELSE RecogerValor(rest, rest_low, idx + 1,
                  IF Lower(rest_low[idx + 1]) \notin _STOPWORDS
                  THEN Append(valor_tokens, rest[idx + 1])
                  ELSE valor_tokens)
    ELSE [idx |-> idx, valor_tokens |-> valor_tokens]

\* Coercion comparing valor_str itself, not its lower case
Coercion_SinLower(valor_str) ==
    IF valor_str \in VALORES_VERDADERO THEN VBool(TRUE)
    ELSE IF valor_str \in VALORES_FALSO THEN VBool(FALSE)
    ELSE VStr(valor_str)

\* Normalizar booleanos: the value stored for valor_str
Coercion(valor_str) ==
    LET v_low == Lower(valor_str)
    IN  IF v_low \in VALORES_VERDADERO THEN VBool(TRUE)
        ELSE IF v_low \in VALORES_FALSO THEN VBool(FALSE)
        ELSE VStr(valor_str)

\* the outer loop of the update scan, from idx with the params so far
RECURSIVE RecorrerCampos(_, _, _, _)
RecorrerCampos(rest, rest_low, idx0, params) ==
    IF idx0 < Len(rest_low)
    THEN LET idx == SaltarStopwords(rest_low, idx0)
         IN  IF idx >= Len(rest_low) THEN params
             ELSE IF Lower(rest_low[idx + 1]) \notin _CAMPOS_ACTUALIZABLES
                  THEN RecorrerCampos(rest, rest_low, idx + 1, params)
             ELSE LET r == RecogerValor(rest, rest_low, idx + 1, <<>>)
                      valor_str == Strip(Join(r.valor_tokens))
                  IN  IF valor_str = <<>>
                      THEN RecorrerCampos(rest, rest_low, r.idx, params)
                      ELSE RecorrerCampos(rest, rest_low, r.idx,
                               Poner(params, _CAMPO_DESCRIPCION, Coercion(valor_str)))
    ELSE params

\* what _extraer_params ends with: a dict, or the ValueError of int()
Retorna(params) == [excepcion |-> None, params |-> params]
Lanza(e) == [excepcion |-> e, params |-> DictVacio]

\* ParamsCrear keeping only the first token of the description
ParamsCrear_PrimerToken(rest) ==
    IF rest = <<>> THEN Retorna(DictVacio)
    ELSE Retorna(Poner(DictVacio, "descripcion", VStr(rest[1])))

\* the Create branch: the non-empty tokens joined by single spaces
ParamsCrear(rest) ==
    LET desc == Strip(Join(SelectSeq(rest, LAMBDA w : w # <<>>)))
    IN  IF desc # <<>> THEN Retorna(Poner(DictVacio, "descripcion", VStr(desc)))
        ELSE Retorna(DictVacio)

\* the Update branch: the id after the leading stopwords, then the field scan
ParamsActualizar(rest, rest_low) ==
    LET idx == SaltarStopwords(rest_low, 0)
    IN  IF idx < Len(rest) /\ IsDigit(rest[idx + 1])
        THEN IF IntAcepta(rest[idx + 1])
             THEN Retorna(RecorrerCampos(rest, rest_low, idx + 1,
                              Poner(DictVacio, "id", VInt(IntDe(rest[idx + 1])))))
             ELSE Lanza("ValueError")
        ELSE Retorna(RecorrerCampos(rest, rest_low, idx, DictVacio))

\* the Delete branch: the id after the leading stopwords
ParamsEliminar(rest, rest_low) ==
    LET idx == SaltarStopwords(rest_low, 0)
    IN  IF idx < Len(rest) /\ IsDigit(rest[idx + 1])
        THEN IF IntAcepta(rest[idx + 1])
             THEN Retorna(Poner(DictVacio, "id", VInt(IntDe(rest[idx + 1]))))
             ELSE Lanza("ValueError")
        ELSE Retorna(DictVacio)

\* _extraer_params on palabras[desde:] and low[desde:]
_extraer_params(accion, entidad, palabras, low, desde) ==
    LET rest == SubSeq(palabras, desde + 1, Len(palabras))
        rest_low == SubSeq(low, desde + 1, Len(low))
    IN  IF accion = "crear" THEN ParamsCrear(rest)
        ELSE IF accion = "listar" THEN Retorna(DictVacio)
        ELSE IF accion = "actualizar" THEN ParamsActualizar(rest, rest_low)
        ELSE IF accion = "eliminar" THEN ParamsEliminar(rest, rest_low)
        ELSE Retorna(DictVacio)

\* what parsear ends with
ResNone == [tipo |-> None]
ResLanza(e) == [tipo |-> e]
Instruccion(accion, entidad, params) ==
    [tipo |-> "Instruccion", accion |-> accion, entidad |-> entidad, params |-> params]

\* Rechaza without the test that an update carries a field besides the id
Rechaza_SoloId(accion, params) ==
    \/ accion = "crear" /\ "descripcion" \notin DOMAIN params
    \/ accion = "actualizar" /\ "id" \notin DOMAIN params
    \/ accion = "eliminar" /\ "id" \notin DOMAIN params

\* Validaciones minimas: whether parsear rejects (accion, params)
Rechaza(accion, params) ==
    \/ accion = "crear" /\ "descripcion" \notin DOMAIN params
    \/ accion = "actualizar" /\ ("id" \notin DOMAIN params \/ Cardinality(DOMAIN params) <= 1)
    \/ accion = "eliminar" /\ "id" \notin DOMAIN params

\* ParserInstrucciones.parsear
parsear(txt) ==
    LET t == _quitar_tildes(_normalizar(txt))
        palabras == Split(t)
        low == LowerTodas(palabras)
        a == _primera_palabra_accion(palabras, low)
        e == _buscar_entidad(palabras, low, a[2])
        x == _extraer_params(a[1], e[1], palabras, low, e[2])
    IN  IF t = <<>> THEN ResNone
        ELSE IF a[1] = None THEN ResNone
        ELSE IF e[1] = None THEN ResNone
        ELSE IF x.excepcion # None THEN ResLanza(x.excepcion)
        ELSE IF Rechaza(a[1], x.params) THEN ResNone
        ELSE Instruccion(a[1], e[1], x.params)

\* det before any text has been parsed
SinDeteccion == [accion |-> <<None, 0>>, entidad |-> <<None, 0>>]

(***************************************************************************)
(* services/db.py and services/categorias_service.py: the table categorias *)
(* (id primary key, descripcion) behind one connection per call            *)
(***************************************************************************)

\* categorias_service.py _quitar_tildes: strip, NFD, drop the combining marks
svc_quitar_tildes(s) ==
    IF s = <<>> THEN <<>>
    ELSE SelectSeq(NFD(Strip(s)), LAMBDA c : c \notin Mn)

\* where a store call can fail: opening the connection, running the statement,
\* committing; or nowhere
Fallas == {"ninguna", "connect", "execute", "commit"}

\* conn.commit(): the rows the statement left become the rows of the table
Commit(confirmada, pendiente) == pendiente

\* Rollback that keeps what the statement wrote
Rollback_Conserva(confirmada, pendiente) == pendiente

\* conn.rollback(): the rows of the table stay as they were before the statement
Rollback(confirmada, pendiente) == confirmada

\* how a call of the service ends: the rows of the table, the exception raised
\* (None if it returned), the value returned, the connections opened
FinLlamada(t, e, v, c) == [tabla |-> t, excepcion |-> e, valor |-> v, conexiones |-> c]

\* get_connection around one statement; sentencia gives the rows the statement
\* leaves and the value the with-body returns
get_connection(t, sentencia, falla) ==
    IF falla = "connect" THEN FinLlamada(t, "OperationalError", 0, 0)
    ELSE IF falla = "execute"
         THEN FinLlamada(Rollback(t, t), "OperationalError", 0, 1)
    ELSE IF falla = "commit"
         THEN FinLlamada(Rollback(t, sentencia.tabla), "OperationalError", 0, 1)
    ELSE FinLlamada(Commit(t, sentencia.tabla), None, sentencia.valor, 1)

\* SELECT * FROM categorias: the rows as (id, descripcion), in rowid order
RECURSIVE Filas(_)
Filas(t) ==
    IF DOMAIN t = {} THEN <<>>
    ELSE LET i == MinDe(DOMAIN t)
         IN  <<[id |-> i, descripcion |-> t[i]]>> \o Filas([j \in DOMAIN t \ {i} |-> t[j]])

\* the value bound to a column in update: bool as 1/0, str without tildes
ValorColumna(v) ==
    IF v.t = "bool" THEN VInt(v.n)
    ELSE IF v.t = "str" THEN VStr(svc_quitar_tildes(v.s))
    ELSE v

\* CategoriasService.create: INSERT, returns lastrowid (id: the rowid SQLite picks)
create(t, descripcion, falla, id) ==
    get_connection(t,
        [tabla |-> (id :> VStr(svc_quitar_tildes(descripcion))) @@ t, valor |-> id],
        falla)

\* CategoriasService.list_all
list_all(t, falla) == get_connection(t, [tabla |-> t, valor |-> Filas(t)], falla)

\* CategoriasService.update: 0 without a connection when data has no column of
\* the table; else UPDATE ... WHERE id = ?, returns rowcount
update(t, id_val, data, falla) ==
    IF DOMAIN data = {} THEN FinLlamada(t, None, 0, 0)
    ELSE IF "descripcion" \notin DOMAIN data THEN FinLlamada(t, None, 0, 0)
    ELSE get_connection(t,
             IF id_val \in DOMAIN t
             THEN [tabla |-> [t EXCEPT ![id_val] = ValorColumna(data["descripcion"])],
                   valor |-> 1]
             ELSE [tabla |-> t, valor |-> 0],
             falla)

\* delete that reports the row as deleted and leaves it in the table
delete_SoloCuenta(t, id_val, falla) ==
    get_connection(t, [tabla |-> t, valor |-> IF id_val \in DOMAIN t THEN 1 ELSE 0],
                   falla)

\* CategoriasService.delete: DELETE ... WHERE id = ?, returns rowcount
delete(t, id_val, falla) ==
    get_connection(t,
        IF id_val \in DOMAIN t
        THEN [tabla |-> [j \in DOMAIN t \ {id_val} |-> t[j]], valor |-> 1]
        ELSE [tabla |-> t, valor |-> 0],
        falla)

(***************************************************************************)
(* procesamiento/ejecutor.py                                               *)
(***************************************************************************)

\* the messages of the executor: which one, and the id, value and rows it shows
Msg(k, id, v, filas) == [k |-> k, id |-> id, v |-> v, filas |-> filas]
MsgError(e) == Msg("Error", 0, VStr(<<>>), <<>>) @@ [detalle |-> e]

\* how the try-body of _ejecutar_categorias ends: returning msg, or raising
\* excepcion; with the rows of the table, the store calls made (llamadas) and
\* whether a store call raised (fallo)
FinCuerpo(m, e, t, n, f) ==
    [msg |-> m, excepcion |-> e, tabla |-> t, llamadas |-> n, fallo |-> f]

\* the body after a store call r: its exception is raised, else msg is returned
TrasLlamada(r, m) ==
    IF r.excepcion # None THEN FinCuerpo(MsgError(None), r.excepcion, r.tabla, 1, TRUE)
    ELSE FinCuerpo(m, None, r.tabla, 1, FALSE)

\* the try-body of _ejecutar_categorias
Cuerpo(i, t, falla, id) ==
    LET p == i.params
    IN  IF i.accion = "crear"
        THEN IF "descripcion" \in DOMAIN p /\ p["descripcion"].t # "str"
             THEN FinCuerpo(MsgError(None), "AttributeError", t, 0, FALSE)
             ELSE LET desc == IF "descripcion" \in DOMAIN p
                              THEN Strip(p["descripcion"].s) ELSE <<>>
                  IN  IF desc = <<>>
                      THEN FinCuerpo(Msg("Falta la descripcion", 0, VStr(<<>>), <<>>),
                                     None, t, 0, FALSE)
                      ELSE TrasLlamada(create(t, desc, falla, id),
                                       Msg("creada", id, VStr(desc), <<>>))
        ELSE IF i.accion = "listar"
        THEN LET r == list_all(t, falla)
             IN  TrasLlamada(r, IF r.valor = <<>>
                                THEN Msg("No hay categorias", 0, VStr(<<>>), <<>>)
                                ELSE Msg("Categorias", 0, VStr(<<>>), r.valor))
        ELSE IF i.accion = "actualizar"
        THEN IF "id" \notin DOMAIN p
             THEN FinCuerpo(Msg("Falta el id para actualizar", 0, VStr(<<>>), <<>>),
                            None, t, 0, FALSE)
             ELSE LET campos == [k \in DOMAIN p \ {"id"} |-> p[k]]
                  IN  IF DOMAIN campos = {}
                      THEN FinCuerpo(Msg("Falta al menos un campo", 0, VStr(<<>>), <<>>),
                                     None, t, 0, FALSE)
                      ELSE LET r == update(t, p["id"].n, campos, falla)
                           IN  TrasLlamada(r,
                                   IF r.valor = 0
                                   THEN Msg("No existe", p["id"].n, VStr(<<>>), <<>>)
                                   ELSE Msg("actualizada", p["id"].n,
                                            campos["descripcion"], <<>>))
        ELSE IF i.accion = "eliminar"
        THEN IF "id" \notin DOMAIN p
             THEN FinCuerpo(Msg("Falta el id a eliminar", 0, VStr(<<>>), <<>>),
                            None, t, 0, FALSE)
             ELSE LET r == delete(t, p["id"].n, falla)
                  IN  TrasLlamada(r,
                          IF r.valor = 0
                          THEN Msg("No existe", p["id"].n, VStr(<<>>), <<>>)
                          ELSE Msg("eliminada", p["id"].n, VStr(<<>>), <<>>))
        ELSE FinCuerpo(Msg("Accion no implementada", 0, VStr(<<>>), <<>>),
                       None, t, 0, FALSE)

\* how ejecutar ends: msg returned (lanza = None) or an exception raised to the caller
FinEjecutar(c, m, e) ==
    [msg |-> m, lanza |-> e, tabla |-> c.tabla, llamadas |-> c.llamadas,
     fallo |-> c.fallo, excepcion |-> c.excepcion]

\* _ejecutar_categorias: the body inside try; except Exception as e: "Error: {e}"
_ejecutar_categorias(i, t, falla, id) ==
    LET c == Cuerpo(i, t, falla, id)
    IN  IF c.excepcion # None THEN FinEjecutar(c, MsgError(c.excepcion), None)
        ELSE FinEjecutar(c, c.msg, None)

\* EjecutorInstrucciones.ejecutar
ejecutar(i, t, falla, id) ==
    IF i.entidad = "categorias" THEN _ejecutar_categorias(i, t, falla, id)
    ELSE [msg |-> Msg("Entidad no soportada", 0, VStr(<<>>), <<>>), lanza |-> None,
          tabla |-> t, llamadas |-> 0, fallo |-> FALSE, excepcion |-> None]

\* no row, no call made yet
TablaVacia == [j \in {} |-> VStr(<<>>)]
SinSalida ==
    [msg |-> Msg("", 0, VStr(<<>>), <<>>), lanza |-> None, tabla |-> TablaVacia,
     llamadas |-> 0, fallo |-> FALSE, excepcion |-> None]
EjecutorEnReposo ==
    /\ tabla = TablaVacia
    /\ tabla_antes = TablaVacia
    /\ inst = ResNone
    /\ salida = SinSalida

\* no confirmation returned yet
SinConfirmadas == confirmadas = TablaVacia

\* no update scan under way
SinRecorrido ==
    recorrido = [rest |-> <<>>, rest_low |-> <<>>, idx |-> 0, params |-> DictVacio]

\* no thread running _guardar_y_transcribir: its locals as it would set them
SinHilo ==
    [pc |-> "ninguno", ok |-> FALSE, texto |-> <<>>, error |-> None, chunks |-> 0,
     ruta |-> None]

\* ChatView.__init__ and Grabadora.__init__: no stream, no chunk, the mic
\* button enabled with the MIC icon, the text field empty, no thread
CapturaEnReposo ==
    /\ grabadora = [_stream |-> None, _chunks |-> 0, entrega |-> FALSE]
    /\ mic_btn = [icon |-> "MIC", disabled |-> FALSE]
    /\ text_input = <<>>
    /\ snack_bar = [content |-> "", error |-> None]
    /\ hilo = SinHilo
    /\ parseos = 0

OtrosEnReposo == SinConfirmadas /\ SinRecorrido /\ CapturaEnReposo

(***************************************************************************)
(* Normalization applied once and again                                    *)
(***************************************************************************)

\* length of the texts handed to the normalizer
MaxLargoNorm == 5

AlfabetoNorm == {"a", " ", "\t", ".", "!"}

RECURSIVE Cadenas(_, _)
\* every sequence over S of length at most n
Cadenas(S, n) ==
    IF n = 0 THEN {<<>>}
    ELSE LET C == Cadenas(S, n - 1)
         IN  C \cup {Append(c, x) : c \in {d \in C : Len(d) = n - 1}, x \in S}

InitNorm ==
    /\ pc = "inicio"
    /\ partes = <<>>
    /\ texto \in Cadenas(AlfabetoNorm, MaxLargoNorm)
    /\ texto2 = <<>>
    /\ norm = <<>>
    /\ norm2 = <<>>
    /\ det = SinDeteccion
    /\ res = ResNone
    /\ res2 = ResNone
    /\ EjecutorEnReposo
    /\ OtrosEnReposo

\* norm = _normalizar(texto)
Normalizar ==
    /\ pc = "inicio"
    /\ norm' = _normalizar(texto)
    /\ pc' = "normalizado"
    /\ UNCHANGED <<partes, texto, texto2, norm2, det, res, res2, ejecutorVars, otrosVars>>

\* norm2 = _normalizar(norm)
Renormalizar ==
    /\ pc = "normalizado"
    /\ norm2' = _normalizar(norm)
    /\ pc' = "renormalizado"
    /\ UNCHANGED <<partes, texto, texto2, norm, det, res, res2, ejecutorVars, otrosVars>>

NextNorm == Normalizar \/ Renormalizar

SpecNorm == InitNorm /\ [][NextNorm]_vars

\* C2: normalize(normalize(x)) = normalize(x) for every text x
C2_Idempotente == pc = "renormalizado" => norm2 = norm


(***************************************************************************)
(* One text parsed: ChatView._procesar_instruccion hands the text of the   *)
(* input field to ParserInstrucciones.parsear                              *)
(***************************************************************************)

\* the locals of parsear after the detector and the resolver have run
Deteccion(txt) ==
    LET t == _quitar_tildes(_normalizar(txt))
        palabras == Split(t)
        low == LowerTodas(palabras)
        a == _primera_palabra_accion(palabras, low)
    IN  IF t = <<>> THEN SinDeteccion
        ELSE IF a[1] = None THEN [accion |-> a, entidad |-> <<None, 0>>]
        ELSE [accion |-> a, entidad |-> _buscar_entidad(palabras, low, a[2])]

\* res = parsear(texto)
ParsearTexto ==
    /\ pc = "inicio"
    /\ res' = parsear(texto)
    /\ det' = Deteccion(texto)
    /\ pc' = "parseado"
    /\ UNCHANGED <<partes, texto, texto2, norm, norm2, res2, ejecutorVars, otrosVars>>

\* res2 = parsear(texto2)
ParsearTexto2 ==
    /\ pc = "parseado"
    /\ res2' = parsear(texto2)
    /\ pc' = "parseado2"
    /\ UNCHANGED <<partes, texto, texto2, norm, norm2, det, res, ejecutorVars, otrosVars>>

NextParser == ParsearTexto

NextParser2 == ParsearTexto \/ ParsearTexto2

\* the texts typed: words
T_nueva == <<"n","u","e","v","a">>
T_listar == <<"l","i","s","t","a","r">>
T_editar == <<"e","d","i","t","a","r">>
T_eliminar == <<"e","l","i","m","i","n","a","r">>
T_ver == <<"v","e","r">>
T_todas == <<"t","o","d","a","s">>
T_todos == <<"t","o","d","o","s">>
T_categoria == <<"c","a","t","e","g","o","r","i","a">>
T_categorias == <<"c","a","t","e","g","o","r","i","a","s">>
T_descripcion == <<"d","e","s","c","r","i","p","c","i","o","n">>
T_hola == <<"h","o","l","a">>
T_x == <<"x">>
T_de == <<"d","e">>
T_las == <<"l","a","s">>
T_1 == <<"1">>
T_12 == <<"1","2">>
T_sup2 == <<"^2">>
T_SI == <<"S","I">>
T_no == <<"n","o">>

\* a text typed as words: the words with single spaces between them
InitPalabras(P) ==
    /\ pc = "inicio"
    /\ partes \in P
    /\ texto = Join(partes)
    /\ texto2 = <<>>
    /\ norm = <<>>
    /\ norm2 = <<>>
    /\ det = SinDeteccion
    /\ res = ResNone
    /\ res2 = ResNone
    /\ EjecutorEnReposo
    /\ OtrosEnReposo

(***************************************************************************)
(* Token-level reading of a command: what the grammar says of the words    *)
(* after the entity (cola)                                                 *)
(***************************************************************************)

EsStopword(p) == Lower(p) \in _STOPWORDS
EsCampo(p) == Lower(p) \in _CAMPOS_ACTUALIZABLES
EsNumero(p) == p # <<>> /\ \A i \in 1..Len(p) : p[i] \in DOMAIN Decimales

\* position of the first word of cola that is no stopword, Len(cola) + 1 if none
PrimeraNoStopword(cola) ==
    MinDe({i \in 1..Len(cola) : ~EsStopword(cola[i])} \cup {Len(cola) + 1})

\* the first word of cola that is no stopword is a number
TieneId(cola) ==
    PrimeraNoStopword(cola) <= Len(cola) /\ EsNumero(cola[PrimeraNoStopword(cola)])

\* the first word of cola that is no stopword passes isdigit()
TieneDigitos(cola) ==
    PrimeraNoStopword(cola) <= Len(cola) /\ IsDigit(cola[PrimeraNoStopword(cola)])

IdDe(cola) == IntDe(cola[PrimeraNoStopword(cola)])

\* the positions of the field names after the id (after position desde)
PosCampos(cola, desde) == {i \in (desde + 1)..Len(cola) : EsCampo(cola[i])}

\* the words between the field name at i and the next field name, stopwords left out
ValorDe(cola, i) ==
    LET sig == MinDe({j \in PosCampos(cola, i) : TRUE} \cup {Len(cola) + 1})
    IN  SelectSeq(SubSeq(cola, i + 1, sig - 1), LAMBDA p : ~EsStopword(p))

\* the field names after position desde that are followed by a value
CamposConValor(cola, desde) == {i \in PosCampos(cola, desde) : ValorDe(cola, i) # <<>>}

(***************************************************************************)
(* C1: texts of every action                                               *)
(***************************************************************************)

MaxColaParser == 3

VerbosParser == {T_nueva, T_listar, T_editar, T_eliminar, T_hola}
LexParser == {T_1, T_descripcion, T_x, T_de, T_sup2}

TextosParser ==
    {<<v>> \o e \o c : v \in VerbosParser, e \in {<<>>, <<T_categoria>>},
                       c \in Cadenas(LexParser, MaxColaParser)}

InitParser == InitPalabras(TextosParser)

SpecParser == InitParser /\ [][NextParser]_vars

\* the per-action completeness rule of an Instruccion
Completa(r) ==
    /\ r.accion = "crear" =>
          /\ "descripcion" \in DOMAIN r.params
          /\ r.params["descripcion"].t = "str"
          /\ r.params["descripcion"].s # <<>>
    /\ r.accion = "listar" => DOMAIN r.params = {}
    /\ r.accion = "actualizar" =>
          /\ "id" \in DOMAIN r.params
          /\ r.params["id"].t = "int"
          /\ Cardinality(DOMAIN r.params) >= 2
    /\ r.accion = "eliminar" =>
          /\ "id" \in DOMAIN r.params
          /\ r.params["id"].t = "int"

\* the words after the entity of a text of TextosParser that names the entity
ColaDe(p) == SubSeq(p, 3, Len(p))
EsTextoDe(p, verbo) == Len(p) >= 2 /\ p[1] = verbo /\ p[2] = T_categoria

MaxLargoDesc == 4

AlfabetoDesc == {"x", "Y", " ", "\t", ".", "a'", "'"}

PrefijoCrear == Join(<<T_nueva, T_categoria>>) \o <<" ">>

InitCrear ==
    /\ pc = "inicio"
    /\ partes \in {<<d>> : d \in Cadenas(AlfabetoDesc, MaxLargoDesc)}
    /\ texto = PrefijoCrear \o partes[1]
    /\ texto2 = <<>>
    /\ norm = <<>>
    /\ norm2 = <<>>
    /\ det = SinDeteccion
    /\ res = ResNone
    /\ res2 = ResNone
    /\ EjecutorEnReposo
    /\ OtrosEnReposo

SpecCrear == InitCrear /\ [][NextParser]_vars

\* the base letter of each accented letter
LetraBase ==
    ("a'" :> "a") @@ ("e'" :> "e") @@ ("i'" :> "i") @@ ("o'" :> "o") @@
    ("u'" :> "u") @@ ("n~" :> "n") @@ ("A'" :> "A") @@ ("E'" :> "E") @@
    ("I'" :> "I") @@ ("O'" :> "O") @@ ("U'" :> "U") @@ ("N~" :> "N")

\* d with every accented letter replaced by its base letter and the loose
\* combining marks dropped
SinDiacriticos(d) ==
    LET sinMarcas == SelectSeq(d, LAMBDA c : c \notin {"'", "~"})
    IN  [i \in 1..Len(sinMarcas) |->
            IF sinMarcas[i] \in DOMAIN LetraBase THEN LetraBase[sinMarcas[i]]
            ELSE sinMarcas[i]]

\* s with every run of whitespace replaced by one space
RECURSIVE Colapsar(_)
Colapsar(s) ==
    IF s = <<>> THEN <<>>
    ELSE IF Head(s) \in Espacios
         THEN IF Len(s) >= 2 /\ s[2] \in Espacios THEN Colapsar(Tail(s))
              ELSE <<" ">> \o Colapsar(Tail(s))
         ELSE <<Head(s)>> \o Colapsar(Tail(s))

CrearCon(desc) ==
    Instruccion("crear", "categorias", Poner(DictVacio, "descripcion", VStr(desc)))

\* C3 as stated: for a non-empty description d, "nueva categoria " + d parses to
\* Create with description = d trimmed
C3_IdaYVuelta ==
    pc = "parseado" /\ partes[1] # <<>> => res = CrearCon(Strip(partes[1]))

\* C3 amended: when d, its diacritics removed and trimmed, is non-empty and does
\* not end with a sentence terminator, "nueva categoria " + d parses to Create
\* with description = d without diacritics, trimmed, each whitespace run
\* collapsed to one space
C3_IdaYVueltaNormalizada ==
    LET d == Strip(SinDiacriticos(partes[1]))
    IN  pc = "parseado" /\ d # <<>> /\ d[Len(d)] \notin _FIN_FRASE
            => res = CrearCon(Colapsar(d))

\* a description with an accent and a whitespace run has been parsed
C3_Testigo ==
    /\ pc = "parseado"
    /\ partes[1] = <<"a'", " ", "\t", "x">>
    /\ res = CrearCon(<<"a", " ", "x">>)

(***************************************************************************)
(* C4: a command text and the same text followed by sentence terminators   *)
(***************************************************************************)

MaxLargoCola == 3
MaxLargoPunt == 2

AlfabetoCola == {"x", "5", " ", "."}
PrefijosPunt ==
    { Join(<<T_nueva, T_categoria>>) \o <<" ">>,
      Join(<<T_eliminar, T_categoria>>) \o <<" ">>,
      Join(<<T_listar, T_categoria>>) }

InitPuntuacion ==
    /\ pc = "inicio"
    /\ partes \in {<<pre \o c, f>> : pre \in PrefijosPunt,
                                    c \in Cadenas(AlfabetoCola, MaxLargoCola),
                                    f \in Cadenas({".", "!", "?"}, MaxLargoPunt) \ {<<>>}}
    /\ texto = partes[1]
    /\ texto2 = partes[1] \o partes[2]
    /\ norm = <<>>
    /\ norm2 = <<>>
    /\ det = SinDeteccion
    /\ res = ResNone
    /\ res2 = ResNone
    /\ EjecutorEnReposo
    /\ OtrosEnReposo

SpecPuntuacion == InitPuntuacion /\ [][NextParser2]_vars

\* C4: parsing t followed by a non-empty run of terminators gives what parsing t gives
C4_PuntuacionFinal == pc = "parseado2" => res2 = res

(***************************************************************************)
(* C5: the action detector on the first words of a text                    *)
(***************************************************************************)

MaxPalabrasAccion == 3

LexAccion ==
    {T_ver, T_todas, T_todos, T_listar, T_nueva, T_editar, T_eliminar, T_categoria, T_hola}

InitAccion == InitPalabras(Cadenas(LexAccion, MaxPalabrasAccion))

SpecAccion == InitAccion /\ [][NextParser]_vars

\* what the two-token rule says of the words p
AccionEsperada(p) ==
    IF Len(p) >= 2 /\ p[1] = T_ver /\ p[2] \in {T_todas, T_todos} THEN <<"listar", 2>>
    ELSE IF p[1] \in _ACCIONES_LISTAR THEN <<"listar", 1>>
    ELSE IF p[1] \in _ACCIONES_CREAR THEN <<"crear", 1>>
    ELSE IF p[1] \in _ACCIONES_ACTUALIZAR THEN <<"actualizar", 1>>
    ELSE IF p[1] \in _ACCIONES_ELIMINAR THEN <<"eliminar", 1>>
    ELSE <<None, 0>>

\* C5: "ver" followed by "todas"/"todos" is List with 2 tokens consumed; any other
\* first word of a vocabulary is its action with 1; no vocabulary, (None, 0)
C5_ReglaDosTokens ==
    pc = "parseado" /\ partes # <<>> => det.accion = AccionEsperada(partes)

(***************************************************************************)
(* C6: delete texts                                                        *)
(***************************************************************************)

MaxColaEliminar == 3

T_borra == <<"b","o","r","r","a">>
T_007 == <<"0","0","7">>
LexEliminar == {T_12, T_007, T_de, T_x, T_sup2}

InitEliminar ==
    InitPalabras({<<v, T_categoria>> \o c : v \in {T_eliminar, T_borra},
                                          c \in Cadenas(LexEliminar, MaxColaEliminar)})

SpecEliminar == InitEliminar /\ [][NextParser]_vars

\* C6: Delete with id = n exactly when the first word after the entity that is no
\* stopword is a number of value n, with id the only parameter; None otherwise
C6_Eliminar ==
    LET cola == ColaDe(partes)
    IN  pc = "parseado" =>
            res = IF TieneId(cola)
                  THEN Instruccion("eliminar", "categorias",
                                   Poner(DictVacio, "id", VInt(IdDe(cola))))
                  ELSE ResNone

\* C6 on the texts whose would-be id is made of decimal digits only
C6_EliminarDecimal ==
    LET cola == ColaDe(partes)
    IN  pc = "parseado" /\ (TieneDigitos(cola) => TieneId(cola)) =>
            res = IF TieneId(cola)
                  THEN Instruccion("eliminar", "categorias",
                                   Poner(DictVacio, "id", VInt(IdDe(cola))))
                  ELSE ResNone

(***************************************************************************)
(* C7: update texts                                                        *)
(***************************************************************************)

MaxColaActualizar == 4

T_Descripcion == <<"D","e","s","c","r","i","p","c","i","o","n">>
LexActualizar == {T_1, T_descripcion, T_Descripcion, T_x, T_SI, T_no, T_de}

InitActualizar ==
    InitPalabras({<<T_editar, T_categoria>> \o c : c \in Cadenas(LexActualizar, MaxColaActualizar)})

SpecActualizar == InitActualizar /\ [][NextParser]_vars

\* the boolean words of an update value
PalabrasVerdadero ==
    { <<"v","e","r","d","a","d","e","r","o">>, <<"t","r","u","e">>, <<"1">>,
      <<"s","i">>, <<"y","e","s">> }
PalabrasFalso ==
    { <<"f","a","l","s","o">>, <<"f","a","l","s","e">>, <<"0">>, <<"n","o">> }

\* the parameter a value stands for
ValorEsperado(v) ==
    IF Lower(v) \in PalabrasVerdadero THEN VBool(TRUE)
    ELSE IF Lower(v) \in PalabrasFalso THEN VBool(FALSE)
    ELSE VStr(v)

MaxColaListar == 3

LexListar == {T_todas, T_las, T_categorias, T_categoria, T_x, T_de}

InitListar ==
    InitPalabras({<<v>> \o c : v \in {T_listar, T_ver, T_todas},
                               c \in Cadenas(LexListar, MaxColaListar)})

SpecListar == InitListar /\ [][NextParser]_vars

\* C8: after a List word, when the first word that is no stopword is an entity
\* word the result is List with empty params, whatever comes before or after it;
\* otherwise the resolver returns (None, start) and the result is None
C8_ListarIgnoraRuido ==
    LET cola == SubSeq(partes, 2, Len(partes))
        k == PrimeraNoStopword(cola)
    IN  pc = "parseado" =>
            IF k <= Len(cola) /\ cola[k] \in {T_categoria, T_categorias}
            THEN /\ res = Instruccion("listar", "categorias", DictVacio)
                 /\ det.entidad = <<"categorias", k + 1>>
            ELSE /\ res = ResNone
                 /\ det.entidad = <<None, det.accion[2]>>

\* "listar las categorias x" has been parsed into List
C8_Testigo ==
    /\ pc = "parseado"
    /\ partes = <<T_listar, T_las, T_categorias, T_x>>
    /\ res = Instruccion("listar", "categorias", DictVacio)

(***************************************************************************)
(* C9: a text with accented letters and the same text without them         *)
(***************************************************************************)

MaxPalabrasTildes == 4

T_anadir_t == <<"a","n~","a","d","i","r">>
T_categoria_t == <<"c","a","t","e","g","o","r","i'","a">>
T_descripcion_t == <<"D","e","s","c","r","i","p","c","i","o'","n">>
T_si_t == <<"s","i'">>
T_Jose_t == <<"J","o","s","e'">>
LexTildes == {T_anadir_t, T_categoria_t, T_editar, T_descripcion_t, T_1, T_si_t, T_Jose_t}

\* txt with each accented letter replaced by its base letter
SinAcentos(txt) ==
    [i \in 1..Len(txt) |-> IF txt[i] \in DOMAIN LetraBase THEN LetraBase[txt[i]] ELSE txt[i]]

InitTildes ==
    /\ pc = "inicio"
    /\ partes \in Cadenas(LexTildes, MaxPalabrasTildes)
    /\ texto = Join(partes)
    /\ texto2 = SinAcentos(Join(partes))
    /\ norm = <<>>
    /\ norm2 = <<>>
    /\ det = SinDeteccion
    /\ res = ResNone
    /\ res2 = ResNone
    /\ EjecutorEnReposo
    /\ OtrosEnReposo

SpecTildes == InitTildes /\ [][NextParser2]_vars

\* C9: the text with accented letters and the text with their base letters parse
\* to the same result
C9_SinTildesIgual == pc = "parseado2" => res2 = res

\* an accented create text and its unaccented form have both been parsed into
\* an Instruccion
C9_Testigo ==
    /\ pc = "parseado2"
    /\ partes = <<T_anadir_t, T_categoria_t, T_Jose_t>>
    /\ texto2 # texto
    /\ res.tipo = "Instruccion"

(***************************************************************************)
(* C10: instructions executed one after another on the store, any store    *)
(* call failing or not                                                     *)
(***************************************************************************)

\* the ids of the table
MaxId == 3

\* the rowid SQLite may pick for a new row: above every rowid of the table
IdsNuevos(t) == {i \in 1..MaxId : \A j \in DOMAIN t : i > j}

\* the descriptions of the instructions executed
DescsEjecutor == {VStr(<<"x">>), VStr(<<" ", "a'">>), VStr(<<" ">>), VBool(TRUE)}

InstsEjecutor ==
    {Instruccion("crear", "categorias", DictVacio),
     Instruccion("listar", "categorias", DictVacio),
     Instruccion("actualizar", "categorias", DictVacio),
     Instruccion("eliminar", "categorias", DictVacio)}
    \cup {Instruccion("crear", "categorias", Poner(DictVacio, "descripcion", d)) :
             d \in DescsEjecutor}
    \cup {Instruccion("actualizar", "categorias", Poner(DictVacio, "id", VInt(n))) :
             n \in 1..MaxId}
    \cup {Instruccion("actualizar", "categorias",
                      Poner(Poner(DictVacio, "id", VInt(n)), "descripcion", d)) :
             n \in 1..MaxId, d \in DescsEjecutor}
    \cup {Instruccion("eliminar", "categorias", Poner(DictVacio, "id", VInt(n))) :
             n \in 1..MaxId}

InitEjecutor ==
    /\ pc = "listo"
    /\ partes = <<>>
    /\ texto = <<>>
    /\ texto2 = <<>>
    /\ norm = <<>>
    /\ norm2 = <<>>
    /\ det = SinDeteccion
    /\ res = ResNone
    /\ res2 = ResNone
    /\ EjecutorEnReposo
    /\ OtrosEnReposo

\* EjecutorInstrucciones.ejecutar(i) on the table as it is; the store call it
\* makes fails at falla; a row created gets the rowid id
Ejecutar ==
    /\ pc = "listo"
    /\ \E i \in InstsEjecutor, falla \in Fallas, id \in IdsNuevos(tabla) \cup {0} :
          /\ (id # 0) = (i.accion = "crear")
          /\ inst' = i
          /\ tabla_antes' = tabla
          /\ salida' = ejecutar(i, tabla, falla, id)
          /\ tabla' = salida'.tabla
    /\ UNCHANGED <<pc, parserVars, otrosVars>>

NextEjecutor == Ejecutar

SpecEjecutor == InitEjecutor /\ [][NextEjecutor]_vars

\* C10: ejecutar never raises; when the store call it makes raises, it returns
\* "Error: <detail>" with the detail of that exception, and the rows of the table
\* are those before the call
C10_NuncaLanza ==
    /\ salida.lanza = None
    /\ salida.fallo =>
          /\ salida.msg.k = "Error"
          /\ salida.msg.detalle = salida.excepcion
          /\ salida.excepcion # None
          /\ tabla = tabla_antes

\* the commit of an update of an existing row has failed
C10_Testigo ==
    /\ inst.tipo = "Instruccion"
    /\ inst.accion = "actualizar"
    /\ "id" \in DOMAIN inst.params
    /\ inst.params["id"].n \in DOMAIN tabla_antes
    /\ salida.fallo
    /\ salida.llamadas = 1
    /\ salida.msg.k = "Error"

(***************************************************************************)
(* main.py: ChatView._procesar_instruccion, one text typed or dictated      *)
(***************************************************************************)

\* what _procesar_instruccion leaves: the parse, the Instruccion handed to the
\* executor (ResNone when none was) and how the handler ended
FinProcesar(r, i, s) == [res |-> r, inst |-> i, salida |-> s]

\* the handler ending with no executor call: the "No entendi" message added to
\* the chat, or the exception of parsear leaving the handler
SinEjecutar(t, m, e) ==
    [msg |-> m, lanza |-> e, tabla |-> t, llamadas |-> 0, fallo |-> FALSE,
     excepcion |-> None]

\* _procesar_instruccion handing to the executor a List when the parse is None
_procesar_instruccion_SinRechazo(r, t, falla, id) ==
    IF r.tipo = "Instruccion" THEN FinProcesar(r, r, ejecutar(r, t, falla, id))
    ELSE FinProcesar(r, ResNone,
                     ejecutar(Instruccion("listar", "categorias", DictVacio),
                              t, falla, id))

\* ChatView._procesar_instruccion, r being self._parser.parsear(texto)
_procesar_instruccion(r, t, falla, id) ==
    IF r.tipo = "Instruccion" THEN FinProcesar(r, r, ejecutar(r, t, falla, id))
    ELSE IF r = ResNone
         THEN FinProcesar(r, ResNone,
                          SinEjecutar(t, Msg("No entendi", 0, VStr(<<>>), <<>>), None))
    ELSE FinProcesar(r, ResNone,
                     SinEjecutar(t, Msg("", 0, VStr(<<>>), <<>>), r.tipo))

(***************************************************************************)
(* C11: texts processed one after another over the same table              *)
(***************************************************************************)

\* the texts processed: create with and without a description; the other
\* verbs (and a word that is no verb) with or without an id, with or without
\* a field name and its value
TextosProcesar ==
    {<<T_nueva, T_categoria>> \o c : c \in {<<>>, <<T_x>>}}
    \cup {<<T_eliminar, T_categoria, T_sup2>>}
    \cup {<<v, T_categoria>> \o i \o c :
             v \in {T_listar, T_editar, T_eliminar, T_hola},
             i \in {<<>>, <<T_1>>},
             c \in {<<>>, <<T_descripcion>>, <<T_descripcion, T_x>>,
                    <<T_descripcion, T_1>>}}

\* the store call made for a text works or fails at commit
FallasProcesar == {"ninguna", "commit"}

\* ParserInstrucciones.parsear on each of those texts
ParseosProcesar == [p \in TextosProcesar |-> parsear(Join(p))]

\* instructions lacking a parameter the executor requires
InstsIncompletas ==
    {Instruccion("crear", "categorias", DictVacio),
     Instruccion("crear", "categorias", Poner(DictVacio, "descripcion", VStr(<<" ">>))),
     Instruccion("actualizar", "categorias", DictVacio),
     Instruccion("actualizar", "categorias", Poner(DictVacio, "id", VInt(1))),
     Instruccion("actualizar", "categorias",
                 Poner(DictVacio, "descripcion", VStr(<<"x">>))),
     Instruccion("eliminar", "categorias", DictVacio)}

\* _procesar_instruccion(texto) on the table as it is
ProcesarInstruccion ==
    /\ pc = "listo"
    /\ \E p \in TextosProcesar, falla \in FallasProcesar,
          id \in IdsNuevos(tabla) \cup {0} :
          LET r == ParseosProcesar[p]
              f == _procesar_instruccion(r, tabla, falla, id)
          IN  /\ (id # 0) = (r.tipo = "Instruccion" /\ r.accion = "crear")
              /\ partes' = p
              /\ texto' = Join(p)
              /\ res' = f.res
              /\ inst' = f.inst
              /\ tabla_antes' = tabla
              /\ salida' = f.salida
              /\ tabla' = f.salida.tabla
    /\ UNCHANGED <<pc, texto2, norm, norm2, det, res2, otrosVars>>

\* EjecutorInstrucciones.ejecutar(i) called with an incomplete instruction
EjecutarIncompleta ==
    /\ pc = "listo"
    /\ \E i \in InstsIncompletas, falla \in FallasProcesar :
          /\ inst' = i
          /\ tabla_antes' = tabla
          /\ salida' = ejecutar(i, tabla, falla, 0)
          /\ tabla' = salida'.tabla
    /\ UNCHANGED <<pc, parserVars, otrosVars>>

NextProcesar == ProcesarInstruccion \/ EjecutarIncompleta

SpecProcesar == InitEjecutor /\ [][NextProcesar]_vars

\* the messages of the executor for a missing parameter
MensajesFalta ==
    {"Falta la descripcion", "Falta el id para actualizar",
     "Falta al menos un campo", "Falta el id a eliminar"}

\* whether the executor requires of i a parameter i lacks
LeFalta(i) ==
    \/ i.accion = "crear" /\ \/ "descripcion" \notin DOMAIN i.params
                             \/ Strip(i.params["descripcion"].s) = <<>>
    \/ i.accion = "actualizar" /\ \/ "id" \notin DOMAIN i.params
                                  \/ DOMAIN i.params \subseteq {"id"}
    \/ i.accion = "eliminar" /\ "id" \notin DOMAIN i.params

\* C11: processing one text makes at most one store call; a rejected parse makes
\* none and leaves the table as it was; an instruction lacking a required
\* parameter gets the executor's message for it, with no store call and the
\* table as it was; and a store call that failed leaves the table as it was
C11_SinEjecucionParcial ==
    /\ salida.llamadas <= 1
    /\ inst = ResNone => salida.llamadas = 0 /\ tabla = tabla_antes
    /\ (inst # ResNone /\ LeFalta(inst)) =>
          /\ salida.msg.k \in MensajesFalta
          /\ salida.llamadas = 0
          /\ tabla = tabla_antes
    /\ salida.msg.k \in MensajesFalta => salida.llamadas = 0
    /\ salida.llamadas = 0 => tabla = tabla_antes
    /\ (salida.llamadas = 1 /\ salida.fallo) => tabla = tabla_antes

\* a text was rejected by the parser when the table already had a row
C11_Testigo ==
    /\ texto # <<>>
    /\ res = ResNone
    /\ inst = ResNone
    /\ salida.msg.k = "No entendi"
    /\ DOMAIN tabla # {}

(***************************************************************************)
(* C12: the list against the confirmations returned so far                 *)
(***************************************************************************)

\* the value the store persists for a description handed to it (store
\* contract): a string trimmed and without diacritics, a boolean as 1 or 0
Escrita(v) ==
    IF v.t = "bool" THEN VInt(IF v = VBool(TRUE) THEN 1 ELSE 0)
    ELSE IF v.t = "str" THEN VStr(SinDiacriticos(Strip(v.s)))
    ELSE v

\* the rows accounted for after the message m: a record enters with the id and
\* description of its Create confirmation, takes the description of each Update
\* confirmation naming it, and leaves with its Delete confirmation
Anotar(c, m) ==
    IF m.k = "creada" THEN (m.id :> Escrita(m.v)) @@ c
    ELSE IF m.k = "actualizada" THEN (m.id :> Escrita(m.v)) @@ c
    ELSE IF m.k = "eliminada" THEN [j \in DOMAIN c \ {m.id} |-> c[j]]
    ELSE c

\* EjecutorInstrucciones.ejecutar(i) on the table as it is, the confirmation it
\* returns noted down
EjecutarYAnotar ==
    /\ pc = "listo"
    /\ \E i \in InstsEjecutor, falla \in Fallas, id \in IdsNuevos(tabla) \cup {0} :
          /\ (id # 0) = (i.accion = "crear")
          /\ inst' = i
          /\ tabla_antes' = tabla
          /\ salida' = ejecutar(i, tabla, falla, id)
          /\ tabla' = salida'.tabla
          /\ confirmadas' = Anotar(confirmadas, salida'.msg)
    /\ UNCHANGED <<pc, parserVars, recorrido, capturaVars>>

NextHistoria == EjecutarYAnotar

SpecHistoria == InitEjecutor /\ [][NextHistoria]_vars

\* what execute(List) returns on the table as it is
ListaAhora == ejecutar(Instruccion("listar", "categorias", DictVacio), tabla, "ninguna", 0).msg

\* C12: from the empty table, after any sequence of executor calls, List returns
\* "No hay categorias" exactly when no record is accounted for, and otherwise one
\* line per record created and not since deleted, with the id of its Create
\* confirmation and the description last written for it; no id appears twice;
\* a List that has just been executed without a store failure returned just that
C12_CrearYListar ==
    LET m == ListaAhora
    IN  /\ (m.k = "No hay categorias") = (DOMAIN confirmadas = {})
        /\ DOMAIN confirmadas # {} =>
              /\ m.k = "Categorias"
              /\ Len(m.filas) = Cardinality(DOMAIN confirmadas)
              /\ {m.filas[j].id : j \in 1..Len(m.filas)} = DOMAIN confirmadas
              /\ \A j \in 1..Len(m.filas) :
                    m.filas[j].descripcion = confirmadas[m.filas[j].id]
              /\ \A j, k \in 1..Len(m.filas) :
                    m.filas[j].id = m.filas[k].id => j = k
        /\ (inst # ResNone /\ inst.accion = "listar" /\ ~salida.fallo) => salida.msg = m

\* a List has just returned two lines, one of them for a record whose
\* description was written by an Update as a boolean
C12_Testigo ==
    /\ inst # ResNone
    /\ inst.accion = "listar"
    /\ ~salida.fallo
    /\ salida.msg.k = "Categorias"
    /\ Len(salida.msg.filas) = 2
    /\ \E j \in 1..2 : salida.msg.filas[j].descripcion = VInt(1)
    /\ \E j \in 1..2 : salida.msg.filas[j].descripcion = VStr(<<"a">>)

(***************************************************************************)
(* C13: update and delete of ids with and without a row                    *)
(***************************************************************************)

\* the fields of the update instructions: the column of the table, a field
\* that is no column of it (modelo.py names visible), or both
CamposNoExiste ==
    {Poner(DictVacio, "descripcion", VStr(<<"x">>)),
     Poner(DictVacio, "visible", VBool(TRUE)),
     Poner(Poner(DictVacio, "descripcion", VBool(FALSE)), "visible", VBool(TRUE))}

InstsNoExiste ==
    {Instruccion("crear", "categorias", Poner(DictVacio, "descripcion", VStr(<<"y">>)))}
    \cup {Instruccion("actualizar", "categorias", Poner(c, "id", VInt(n))) :
             n \in 1..MaxId, c \in CamposNoExiste}
    \cup {Instruccion("eliminar", "categorias", Poner(DictVacio, "id", VInt(n))) :
             n \in 1..MaxId}

\* EjecutorInstrucciones.ejecutar(i), i a create, an update or a delete by id
EjecutarPorId ==
    /\ pc = "listo"
    /\ \E i \in InstsNoExiste, falla \in Fallas, id \in IdsNuevos(tabla) \cup {0} :
          /\ (id # 0) = (i.accion = "crear")
          /\ inst' = i
          /\ tabla_antes' = tabla
          /\ salida' = ejecutar(i, tabla, falla, id)
          /\ tabla' = salida'.tabla
    /\ UNCHANGED <<pc, parserVars, otrosVars>>

NextNoExiste == EjecutarPorId

SpecNoExiste == InitEjecutor /\ [][NextNoExiste]_vars

\* the last call was an update or a delete by id that the store answered
PorIdRespondida ==
    /\ inst # ResNone
    /\ inst.accion \in {"actualizar", "eliminar"}
    /\ "id" \in DOMAIN inst.params
    /\ ~salida.fallo

\* the confirmation of the action of i
Confirmacion(i) == IF i.accion = "actualizar" THEN "actualizada" ELSE "eliminada"

\* C13: an update or delete whose id has no row returns "No existe" naming the
\* id, not "Error:", and leaves the table as it was; when the id has a row, the
\* confirmation of the action is returned instead
C13_NoExiste ==
    PorIdRespondida =>
        LET id == inst.params["id"].n
        IN  IF id \notin DOMAIN tabla_antes
            THEN /\ salida.msg.k = "No existe"
                 /\ salida.msg.id = id
                 /\ tabla = tabla_antes
            ELSE /\ salida.msg.k = Confirmacion(inst)
                 /\ salida.msg.id = id

\* the same, for the updates that carry the column descripcion and the deletes
C13_NoExisteConColumna ==
    (PorIdRespondida /\ (inst.accion = "actualizar" => "descripcion" \in DOMAIN inst.params))
    => C13_NoExiste

(***************************************************************************)
(* C14: the update scan of _extraer_params, one iteration of its outer      *)
(* while loop at a time                                                    *)
(***************************************************************************)

\* how an iteration ends: the cursor, the params, whether break was taken
FinPaso(idx, params, sale) == [idx |-> idx, params |-> params, sale |-> sale]

\* an iteration in which a field name with no value erases the parameter
PasoCampos_VacioBorra(rest, rest_low, idx0, params) ==
    LET idx == SaltarStopwords(rest_low, idx0)
    IN  IF idx >= Len(rest_low) THEN FinPaso(idx, params, TRUE)
        ELSE IF Lower(rest_low[idx + 1]) \notin _CAMPOS_ACTUALIZABLES
             THEN FinPaso(idx + 1, params, FALSE)
        ELSE LET r == RecogerValor(rest, rest_low, idx + 1, <<>>)
                 valor_str == Strip(Join(r.valor_tokens))
             IN  IF valor_str = <<>>
                 THEN FinPaso(r.idx, [k \in DOMAIN params \ {_CAMPO_DESCRIPCION} |-> params[k]],
                              FALSE)
                 ELSE FinPaso(r.idx, Poner(params, _CAMPO_DESCRIPCION, Coercion(valor_str)),
                              FALSE)

\* one iteration of "while idx < len(rest_low)" (lines 133-159), entered with
\* idx0 < len(rest_low)
PasoCampos(rest, rest_low, idx0, params) ==
    LET idx == SaltarStopwords(rest_low, idx0)
    IN  IF idx >= Len(rest_low) THEN FinPaso(idx, params, TRUE)
        ELSE IF Lower(rest_low[idx + 1]) \notin _CAMPOS_ACTUALIZABLES
             THEN FinPaso(idx + 1, params, FALSE)
        ELSE LET r == RecogerValor(rest, rest_low, idx + 1, <<>>)
                 valor_str == Strip(Join(r.valor_tokens))
             IN  IF valor_str = <<>> THEN FinPaso(r.idx, params, FALSE)
                 ELSE FinPaso(r.idx, Poner(params, _CAMPO_DESCRIPCION, Coercion(valor_str)),
                              FALSE)

\* the scan as the Update branch enters the loop (lines 127-132): the cursor
\* after the leading stopwords and the id, params holding the id
InicioRecorrido(rest, rest_low) ==
    LET idx == SaltarStopwords(rest_low, 0)
    IN  IF idx < Len(rest) /\ IsDigit(rest[idx + 1]) /\ IntAcepta(rest[idx + 1])
        THEN [rest |-> rest, rest_low |-> rest_low, idx |-> idx + 1,
              params |-> Poner(DictVacio, "id", VInt(IntDe(rest[idx + 1])))]
        ELSE [rest |-> rest, rest_low |-> rest_low, idx |-> idx, params |-> DictVacio]

\* words after the id
MaxColaRecorrido == 5

LexRecorrido == {T_descripcion, T_x, T_de, T_no}

\* "editar categoria 1" followed by field names, words, stopwords
InitRecorrido ==
    /\ pc = "recorriendo"
    /\ partes \in {<<T_editar, T_categoria, T_1>> \o c :
                      c \in Cadenas(LexRecorrido, MaxColaRecorrido)}
    /\ texto2 = <<>>
    /\ norm = <<>>
    /\ norm2 = <<>>
    /\ res = ResNone
    /\ res2 = ResNone
    /\ EjecutorEnReposo
    /\ SinConfirmadas
    /\ CapturaEnReposo
    /\ \E t \in {Join(partes)} :
          \E d \in {Deteccion(t)} :
             \E palabras \in {Split(_quitar_tildes(_normalizar(t)))} :
                \E rest \in {SubSeq(palabras, d.entidad[2] + 1, Len(palabras))} :
                   \E rest_low \in {LowerTodas(rest)} :
                      /\ texto = t
                      /\ det = d
                      /\ recorrido = InicioRecorrido(rest, rest_low)

\* the loop condition holds: one iteration
PasoRecorrido ==
    /\ pc = "recorriendo"
    /\ recorrido.idx < Len(recorrido.rest_low)
    /\ LET f == PasoCampos(recorrido.rest, recorrido.rest_low, recorrido.idx,
                           recorrido.params)
       IN  /\ recorrido' = [recorrido EXCEPT !.idx = f.idx, !.params = f.params]
           /\ pc' = IF f.sale THEN "recorrido" ELSE "recorriendo"
    /\ UNCHANGED <<parserVars, ejecutorVars, confirmadas, capturaVars>>

\* the loop condition fails: _extraer_params returns params
FinRecorrido ==
    /\ pc = "recorriendo"
    /\ ~(recorrido.idx < Len(recorrido.rest_low))
    /\ pc' = "recorrido"
    /\ UNCHANGED <<parserVars, ejecutorVars, otrosVars>>

NextRecorrido == PasoRecorrido \/ FinRecorrido

SpecRecorrido == InitRecorrido /\ [][NextRecorrido]_vars

\* position in cola of the word an iteration entered at idx looks at: the first
\* word after idx that is no stopword, Len(cola) + 1 if none
Mirada(cola, idx) ==
    MinDe({j \in (idx + 1)..Len(cola) : ~EsStopword(cola[j])} \cup {Len(cola) + 1})

\* the params the scan must end with: the id, and the description of the last
\* field name that has a value, if any
ParamsEsperados(cola) ==
    LET k == PrimeraNoStopword(cola)
        cs == CamposConValor(cola, k)
        id == Poner(DictVacio, "id", VInt(IdDe(cola)))
    IN  IF cs = {} THEN id
        ELSE Poner(id, "descripcion", ValorEsperado(Join(ValorDe(cola, MaxDe(cs)))))

\* C14: every iteration of the scan moves the cursor forward and the cursor
\* never passes the end of the words, so the scan ends within as many iterations
\* as there are words; it ends with the description of the last field name
\* whose value is not empty; an iteration at a field name with an empty value
\* leaves params as they were, one at a field name with a value sets the
\* description to that value; the params the scan ends with are those the
\* Update branch of _extraer_params returns
C14_Recorrido ==
    /\ [][recorrido'.idx > recorrido.idx]_recorrido
    /\ [](recorrido.idx <= Len(recorrido.rest_low))
    /\ [](pc = "recorrido" =>
            /\ recorrido.params = ParamsEsperados(ColaDe(partes))
            /\ ParamsActualizar(recorrido.rest, recorrido.rest_low)
                  = Retorna(recorrido.params))
    /\ [][LET cola == ColaDe(partes)
              i == Mirada(cola, recorrido.idx)
          IN  /\ (i > Len(cola) \/ ~EsCampo(cola[i]))
                    => recorrido'.params = recorrido.params
              /\ (i <= Len(cola) /\ EsCampo(cola[i]) /\ ValorDe(cola, i) = <<>>)
                    => recorrido'.params = recorrido.params
              /\ (i <= Len(cola) /\ EsCampo(cola[i]) /\ ValorDe(cola, i) # <<>>)
                    => recorrido'.params =
                          Poner(recorrido.params, "descripcion",
                                ValorEsperado(Join(ValorDe(cola, i))))]_recorrido

\* the scan of "editar categoria 1 descripcion x descripcion de descripcion" has
\* ended: two occurrences with an empty value after one with the value x
C14_Testigo ==
    /\ pc = "recorrido"
    /\ partes = <<T_editar, T_categoria, T_1, T_descripcion, T_x, T_descripcion, T_de,
                  T_descripcion>>
    /\ recorrido.idx = Len(recorrido.rest_low)
    /\ recorrido.params["descripcion"] = VStr(<<"x">>)

(***************************************************************************)
(* main.py ChatView._on_mic_click, _send_message and audio/grabadora.py:    *)
(* the UI loop, the thread started by a click on Stop, and the audio        *)
(* callback                                                                *)
(***************************************************************************)

\* unicodedata.normalize("NFC", s): a base letter followed by its mark becomes
\* the precomposed letter
RECURSIVE NFC(_)
NFC(s) ==
    IF s = <<>> THEN <<>>
    ELSE IF Len(s) >= 2 /\ \E c \in DOMAIN Descomposicion : Descomposicion[c] = <<s[1], s[2]>>
         THEN <<CHOOSE c \in DOMAIN Descomposicion : Descomposicion[c] = <<s[1], s[2]>>>>
              \o NFC(SubSeq(s, 3, Len(s)))
    ELSE <<s[1]>> \o NFC(Tail(s))

\* Grabadora.grabando
grabando == grabadora._stream # None /\ grabadora.entrega

\* page.snack_bar = SnackBar(...)
SnackBar(content, err) == [content |-> content, error |-> err]

\* what transcribir() returns: nothing, a command with spaces around it, a word
\* whose accent comes as a combining mark
Transcripciones ==
    {<<>>, <<" ">> \o T_listar \o <<" ">> \o T_categorias \o <<" ">>,
     <<"J", "o", "s", "e", "'">>}

\* t = (texto or "").strip(); unicodedata.normalize("NFC", t), for each text
\* transcribir() returns
ValorTranscrito == [t \in Transcripciones |-> NFC(Strip(t))]

\* what _aplicar_en_ui leaves: mic_btn.disabled, text_input.value, the snack bar
FinAplicar(d, t, sb) == [disabled |-> d, text_input |-> t, snack_bar |-> sb]

\* _aplicar_en_ui enabling the button again only when the transcription worked
_aplicar_en_ui_SoloExito(h, disabled, valor) ==
    IF h.ok
    THEN FinAplicar(FALSE, ValorTranscrito[h.texto],
                    SnackBar("Transcripcion completada", None))
    ELSE FinAplicar(disabled, valor, SnackBar("Error", h.error))

\* _aplicar_en_ui (lines 154-170) with the locals h of the thread, valor being
\* text_input.value
_aplicar_en_ui(h, disabled, valor) ==
    IF h.ok
    THEN FinAplicar(FALSE, ValorTranscrito[h.texto],
                    SnackBar("Transcripcion completada", None))
    ELSE FinAplicar(FALSE, valor, SnackBar("Error", h.error))

\* blocks the audio callback may leave in _chunks during one recording
MaxChunks == 2

\* texts sent for processing
MaxEnvios == 2

\* what the user types into the text field
TextosEscritos == {T_hola, <<" ">>}

\* the texts _send_message can find in the field and hand on, trimmed
TextosEnviables ==
    {Strip(t) : t \in TextosEscritos \cup {NFC(Strip(x)) : x \in Transcripciones}}

\* ParserInstrucciones.parsear on each of those texts
ParseosCaptura == [t \in TextosEnviables |-> parsear(t)]

\* how iniciar_grabacion ends: started, ImportError of sounddevice/numpy, or
\* the exception of InputStream(...)/start()
ResultadosIniciar == {"iniciada", "ImportError", "PortAudioError"}

\* _on_mic_click: a click on the mic button (a disabled button gets no click)
ClicMic ==
    /\ pc = "listo"
    /\ ~mic_btn.disabled
    /\ IF ~grabando
       THEN \E r \in ResultadosIniciar :
               /\ grabadora' =
                     IF r = "ImportError" THEN grabadora
                     ELSE IF r = "PortAudioError"
                          THEN [grabadora EXCEPT !._chunks = 0, !._stream = None]
                     ELSE [_stream |-> "stream", _chunks |-> 0, entrega |-> TRUE]
               /\ mic_btn' = IF r = "iniciada" THEN [mic_btn EXCEPT !.icon = "STOP"]
                             ELSE mic_btn
               /\ snack_bar' = IF r = "iniciada" THEN snack_bar
                               ELSE SnackBar("Error al iniciar", r)
               /\ UNCHANGED hilo
       ELSE /\ mic_btn' = [icon |-> "MIC", disabled |-> TRUE]
            /\ hilo' = [SinHilo EXCEPT !.pc = "soltar"]
            /\ UNCHANGED <<grabadora, snack_bar>>
    /\ UNCHANGED <<pc, parserVars, ejecutorVars, confirmadas, recorrido, text_input, parseos>>

\* _callback of the InputStream: one more block appended under the lock
Callback ==
    /\ pc = "listo"
    /\ grabadora.entrega
    /\ grabadora._chunks < MaxChunks
    /\ grabadora' = [grabadora EXCEPT !._chunks = @ + 1]
    /\ UNCHANGED <<pc, parserVars, ejecutorVars, confirmadas, recorrido, mic_btn,
                   text_input, snack_bar, hilo, parseos>>

\* detener_grabacion lines 83-84: stream = self._stream; self._stream = None
HiloSoltar ==
    /\ hilo.pc = "soltar"
    /\ grabadora' = [grabadora EXCEPT !._stream = None]
    /\ hilo' = [hilo EXCEPT !.pc = "parar"]
    /\ UNCHANGED <<pc, parserVars, ejecutorVars, confirmadas, recorrido, mic_btn,
                   text_input, snack_bar, parseos>>

\* detener_grabacion lines 85-90: stream.stop(); stream.close(), an exception
\* of either ignored; no block is delivered afterwards
HiloParar ==
    /\ hilo.pc = "parar"
    /\ grabadora' = [grabadora EXCEPT !.entrega = FALSE]
    /\ hilo' = [hilo EXCEPT !.pc = "vaciar"]
    /\ UNCHANGED <<pc, parserVars, ejecutorVars, confirmadas, recorrido, mic_btn,
                   text_input, snack_bar, parseos>>

\* detener_grabacion lines 92-94, under the lock: chunks = list(self._chunks);
\* self._chunks = []
HiloVaciar ==
    /\ hilo.pc = "vaciar"
    /\ grabadora' = [grabadora EXCEPT !._chunks = 0]
    /\ hilo' = [hilo EXCEPT !.pc = "guardar", !.chunks = grabadora._chunks]
    /\ UNCHANGED <<pc, parserVars, ejecutorVars, confirmadas, recorrido, mic_btn,
                   text_input, snack_bar, parseos>>

\* how the rest of detener_grabacion ends when there are chunks: the path of
\* the WAV written, None (numpy missing), or the exception of writing the file
ResultadosGuardar == {"ruta", "None", "OSError"}

\* detener_grabacion lines 96-117 and what _guardar_y_transcribir does with its
\* result (lines 145-152) short of transcribing
HiloGuardar ==
    /\ hilo.pc = "guardar"
    /\ \E r \in ResultadosGuardar :
          /\ (hilo.chunks = 0) => r = "None"
          /\ hilo' =
                IF r = "ruta" THEN [hilo EXCEPT !.pc = "transcribir", !.ruta = "ruta"]
                ELSE IF r = "None"
                     THEN [hilo EXCEPT !.pc = "programar", !.error = "No se grabo audio."]
                ELSE [hilo EXCEPT !.pc = "programar", !.error = r]
    /\ UNCHANGED <<pc, parserVars, ejecutorVars, confirmadas, recorrido, grabadora,
                   mic_btn, text_input, snack_bar, parseos>>

\* _guardar_y_transcribir lines 147-148 and 151-152: transcribir() returns a text
\* or raises
HiloTranscribir ==
    /\ hilo.pc = "transcribir"
    /\ \/ \E t \in Transcripciones :
             hilo' = [hilo EXCEPT !.pc = "programar", !.texto = t, !.ok = TRUE]
       \/ hilo' = [hilo EXCEPT !.pc = "programar", !.error = "RuntimeError"]
    /\ UNCHANGED <<pc, parserVars, ejecutorVars, confirmadas, recorrido, grabadora,
                   mic_btn, text_input, snack_bar, parseos>>

\* line 171: page.loop.call_soon_threadsafe(_aplicar_en_ui); the thread ends
HiloProgramar ==
    /\ hilo.pc = "programar"
    /\ hilo' = [hilo EXCEPT !.pc = "aplicar"]
    /\ UNCHANGED <<pc, parserVars, ejecutorVars, confirmadas, recorrido, grabadora,
                   mic_btn, text_input, snack_bar, parseos>>

\* the UI loop runs _aplicar_en_ui
AplicarEnUI ==
    /\ hilo.pc = "aplicar"
    /\ LET f == _aplicar_en_ui(hilo, mic_btn.disabled, text_input)
       IN  /\ mic_btn' = [mic_btn EXCEPT !.disabled = f.disabled]
           /\ text_input' = f.text_input
           /\ snack_bar' = f.snack_bar
    /\ hilo' = SinHilo
    /\ UNCHANGED <<pc, parserVars, ejecutorVars, confirmadas, recorrido, grabadora,
                   parseos>>

\* the user types into the text field
Escribir ==
    /\ pc = "listo"
    /\ \E t \in TextosEscritos : text_input # t /\ text_input' = t
    /\ UNCHANGED <<pc, parserVars, ejecutorVars, confirmadas, recorrido, grabadora,
                   mic_btn, snack_bar, hilo, parseos>>

\* _send_message: the trimmed text of the field, if not empty, is added to the
\* chat, the field is emptied and the text goes to _procesar_instruccion
EnviarMensaje ==
    /\ pc = "listo"
    /\ parseos < MaxEnvios
    /\ Strip(text_input) # <<>>
    /\ \E falla \in FallasProcesar, id \in IdsNuevos(tabla) \cup {0} :
          LET t == Strip(text_input)
              r == ParseosCaptura[t]
              f == _procesar_instruccion(r, tabla, falla, id)
          IN  /\ (id # 0) = (r.tipo = "Instruccion" /\ r.accion = "crear")
              /\ texto' = t
              /\ res' = f.res
              /\ inst' = f.inst
              /\ tabla_antes' = tabla
              /\ salida' = f.salida
              /\ tabla' = f.salida.tabla
    /\ text_input' = <<>>
    /\ parseos' = parseos + 1
    /\ UNCHANGED <<pc, partes, texto2, norm, norm2, det, res2, confirmadas, recorrido,
                   grabadora, mic_btn, snack_bar, hilo>>

\* the steps of the thread
Hilo ==
    \/ HiloSoltar
    \/ HiloParar
    \/ HiloVaciar
    \/ HiloGuardar
    \/ HiloTranscribir
    \/ HiloProgramar

NextCaptura == ClicMic \/ Callback \/ Hilo \/ AplicarEnUI \/ Escribir \/ EnviarMensaje

SpecCapturaSegura == InitEjecutor /\ [][NextCaptura]_vars

\* the thread keeps running until it ends, and the UI loop runs the callbacks
\* handed to it
SpecCaptura == SpecCapturaSegura /\ WF_vars(Hilo) /\ WF_vars(AplicarEnUI)

\* the recorder is not recording and holds no chunk
GrabadoraEnReposo ==
    /\ ~grabando
    /\ grabadora._stream = None
    /\ grabadora._chunks = 0

\* C15: from the click on Stop until _aplicar_en_ui has run the mic button is
\* disabled, and it is enabled again in the end whatever the outcome; once
\* detener_grabacion has emptied the buffer the recorder is not recording and
\* holds no chunk until the next recording starts; _aplicar_en_ui after a failed
\* capture leaves the text field as it is, after a transcription it puts the
\* trimmed text in the field; and no step of the thread or of _aplicar_en_ui
\* calls the parser or the executor: only _send_message does
C15_Captura ==
    /\ [](hilo.pc # "ninguno" => mic_btn.disabled)
    /\ (mic_btn.disabled ~> ~mic_btn.disabled)
    /\ []((mic_btn.icon = "MIC" /\ hilo.pc \notin {"soltar", "parar", "vaciar"})
              => GrabadoraEnReposo)
    /\ [][hilo.pc = "aplicar" =>
             /\ ~mic_btn'.disabled
             /\ hilo.ok => text_input' = NFC(Strip(hilo.texto))
             /\ ~hilo.ok => text_input' = text_input]_hilo
    /\ [][/\ parseos' = parseos
          /\ UNCHANGED <<res, inst, salida, tabla>>
          /\ hilo.pc # "aplicar" => text_input' = text_input]_hilo
    /\ [][hilo' = hilo /\ Strip(text_input) # <<>> /\ text_input' = <<>>]_parseos

\* a capture with no audio has been reported: the button is enabled again, the
\* text typed meanwhile is still in the field and nothing was parsed
C15_Testigo ==
    /\ hilo.pc = "ninguno"
    /\ snack_bar = SnackBar("Error", "No se grabo audio.")
    /\ ~mic_btn.disabled
    /\ mic_btn.icon = "MIC"
    /\ text_input = T_hola
    /\ parseos = 0
    /\ GrabadoraEnReposo

=============================================================================
